---- MODULE Spec2Model ----
(***************************************************************************)
(* Document assembly and rendering of pactdesk non-disclosure agreements:  *)
(* request validation, the context builder, the section assembler of       *)
(* NondisclosureService and the Jinja2-based rendering of the document     *)
(* tree (BaseText, Paragraph, Clause, Section).                            *)
(*                                                                         *)
(* Encoding of Python values                                               *)
(*   str            a sequence of text tokens [t |-> "chr", v |-> text];   *)
(*                  text the code inspects by character (titles) is one    *)
(*                  character per token, an enum value is one token per    *)
(*                  part. A template string may also hold reference tokens *)
(*                  [t |-> "var", v |-> name], standing for {{ name }}     *)
(*   Optional[T]    None is <<>>, a present value x is <<x>>               *)
(*   dict           a sequence of [k |-> key, v |-> value] with distinct   *)
(*                  keys, in insertion order                               *)
(*   context value  [t |-> "str", v |-> str], [t |-> "int", v |-> n] or,   *)
(*                  for a nested mapping, [t |-> "dict", v |-> dict]       *)
(***************************************************************************)
EXTENDS Integers, Sequences, FiniteSets, TLC

VARIABLES
    request,        \* the request handed to the service (raw, then validated)
    pc,             \* position of the request in validate / __init__ / generate()
    context,        \* NondisclosureService.context (Optional)
    party_context,  \* NondisclosureService.party_context (Optional)
    baseline,       \* the baseline clause fragments as read from disk (Optional)
    raw,            \* section name -> Optional unrendered Section
    rendered,       \* section name -> Optional rendered Section
    result,         \* what the caller got: nothing yet, a Contract or an error
    reads,          \* the paths of the fragment files read so far
    node,           \* render call: the node render is called on
    scope,          \* render call: the context argument
    out,            \* render or load call: Optional returned value
    disk,           \* load call: what is stored under each path
    load_path,      \* load call: the path argument
    base_path       \* NondisclosureService.base_path

vars == <<request, pc, context, party_context, baseline, raw, rendered, result,
          reads, node, scope, out, disk, load_path, base_path>>

-----------------------------------------------------------------------------
(* Bounds of the model *)

MaxParties == 3
MaxSubsections == 3
MaxSwitches == 2

-----------------------------------------------------------------------------
(* Python values *)

None == <<>>
Some(x) == <<x>>

Txt(chars) == [i \in 1..Len(chars) |-> [t |-> "chr", v |-> chars[i]]]
Var(name) == <<[t |-> "var", v |-> name]>>

StrVal(s) == [t |-> "str", v |-> s]
IntVal(n) == [t |-> "int", v |-> n]
DictVal(d) == [t |-> "dict", v |-> d]

Keys(d) == [i \in 1..Len(d) |-> d[i].k]
HasKey(d, k) == \E i \in 1..Len(d) : d[i].k = k
Get(d, k) == d[CHOOSE i \in 1..Len(d) : d[i].k = k].v
Put(d, k, v) ==
    IF HasKey(d, k)
    THEN [i \in 1..Len(d) |-> IF d[i].k = k THEN [k |-> k, v |-> v] ELSE d[i]]
    ELSE Append(d, [k |-> k, v |-> v])

Digits == <<"0", "1", "2", "3", "4", "5", "6", "7", "8", "9">>

RECURSIVE IntToStr(_)
IntToStr(n) ==
    IF n < 10 THEN Txt(<<Digits[n + 1]>>)
    ELSE IntToStr(n \div 10) \o Txt(<<Digits[(n % 10) + 1]>>)

\* str(value) as Jinja2 prints a scalar; the templates of the model never
\* reference a key whose value is a mapping.
ToStr(val) ==
    CASE val.t = "str" -> val.v
      [] val.t = "int" -> IntToStr(val.v)

UpperCase == <<"A", "B", "C", "D", "E", "F", "G", "H", "I", "J", "K", "L", "M",
               "N", "O", "P", "Q", "R", "S", "T", "U", "V", "W", "X", "Y", "Z">>
LowerCase == <<"a", "b", "c", "d", "e", "f", "g", "h", "i", "j", "k", "l", "m",
               "n", "o", "p", "q", "r", "s", "t", "u", "v", "w", "x", "y", "z">>

LowerChar(c) ==
    IF \E i \in 1..Len(UpperCase) : UpperCase[i] = c
    THEN LowerCase[CHOOSE i \in 1..Len(UpperCase) : UpperCase[i] = c]
    ELSE c

\* str.lower(); a reference token is the text "{{ name }}", which has no
\* upper-case letter outside the name, and is left as it is.
Lower(s) ==
    [i \in 1..Len(s) |-> IF s[i].t = "chr"
                         THEN [t |-> "chr", v |-> LowerChar(s[i].v)]
                         ELSE s[i]]

StartsWith(s, prefix) ==
    /\ Len(s) >= Len(prefix)
    /\ SubSeq(s, 1, Len(prefix)) = prefix

-----------------------------------------------------------------------------
\* jinja2 Template(source).render with the context as keyword arguments and
\* the default settings: one newline at the end of the source is dropped
\* (keep_trailing_newline is off), text is copied, a reference to a key of the
\* context prints its value and a reference to a missing key prints the empty
\* string (the default Undefined).

Newline == [t |-> "chr", v |-> "\n"]

StripTrailingNewline(source) ==
    IF source # <<>> /\ source[Len(source)] = Newline
    THEN SubSeq(source, 1, Len(source) - 1)
    ELSE source

RECURSIVE Substitute(_, _)
Substitute(source, ctx) ==
    IF source = <<>> THEN <<>>
    ELSE LET tok == Head(source)
             piece == IF tok.t = "chr" THEN <<tok>>
                      ELSE IF HasKey(ctx, tok.v) THEN ToStr(Get(ctx, tok.v))
                      ELSE <<>>
         IN piece \o Substitute(Tail(source), ctx)

TemplateRender(source, ctx) == Substitute(StripTrailingNewline(source), ctx)

-----------------------------------------------------------------------------
(* The document tree, pactdesk/models/domain/base.py *)

BaseText(content) == [cls |-> "BaseText", content |-> content]

Paragraph(content, heading, subparagraphs) ==
    [cls |-> "Paragraph", content |-> content, heading |-> heading,
     subparagraphs |-> subparagraphs]

Clause(title, paragraphs) ==
    [cls |-> "Clause", title |-> title, paragraphs |-> paragraphs]

Section(title, subsections, closing) ==
    [cls |-> "Section", title |-> title, subsections |-> subsections,
     closing |-> closing]

BaseTextRender(self, ctx) == BaseText(TemplateRender(self.content, ctx))

\* The returned Paragraph is built from content and subparagraphs alone, so
\* its heading takes the field's default, None.
ParagraphRender(self, ctx) ==
    LET rendered_content == TemplateRender(self.content, ctx)
        truthy == self.subparagraphs # None /\ self.subparagraphs[1] # <<>>
        rendered_subparagraphs ==
            IF truthy
            THEN Some([i \in 1..Len(self.subparagraphs[1]) |->
                          BaseTextRender(self.subparagraphs[1][i], ctx)])
            ELSE None
    IN Paragraph(rendered_content, None, rendered_subparagraphs)

ClauseRender(self, ctx) ==
    Clause(TemplateRender(self.title, ctx),
           [i \in 1..Len(self.paragraphs) |-> ParagraphRender(self.paragraphs[i], ctx)])

\* subsection.render(context): dispatch on the class of the node
NodeRender(self, ctx) ==
    CASE self.cls = "BaseText" -> BaseTextRender(self, ctx)
      [] self.cls = "Paragraph" -> ParagraphRender(self, ctx)
      [] self.cls = "Clause" -> ClauseRender(self, ctx)

\* key.startswith("party_") over the keys of the model
PartyPrefixedKeys == {"party_1", "party_2", "party_3", "party_4"}
\* A faulty variant of HasPartyPrefix: the keys without the prefix count as well
HasPartyPrefixAnyKey(key) == key \in PartyPrefixedKeys \cup {"alice", "bob", "carol", "dave"}

HasPartyPrefix(key) == key \in PartyPrefixedKeys

Min(a, b) == IF a < b THEN a ELSE b

\* Section.render: [ok |-> TRUE, value |-> Section] or [ok |-> FALSE, error |-> e].
\* A closing is [kind |-> "dict" | "BaseText" | "str", content |-> str]; only a
\* dict supports self.closing["content"].
SectionRender(self, ctx) ==
    LET rendered_title == TemplateRender(self.title, ctx)
        party_keys == SelectSeq(Keys(ctx), HasPartyPrefix)
        rendered_subsections ==
            IF party_keys # <<>>
            THEN [i \in 1..Min(Len(self.subsections), Len(party_keys)) |->
                     NodeRender(self.subsections[i], Get(ctx, party_keys[i]).v)]
            ELSE [i \in 1..Len(self.subsections) |->
                     NodeRender(self.subsections[i], ctx)]
        closing_truthy ==
            /\ self.closing # None
            /\ (self.closing[1].kind = "str" => self.closing[1].content # <<>>)
        has_n_parties ==
            /\ HasKey(ctx, "_global")
            /\ HasKey(Get(ctx, "_global").v, "n_parties")
        closing_context == Put(ctx, "n_parties", Get(Get(ctx, "_global").v, "n_parties"))
    IN IF closing_truthy /\ has_n_parties
       THEN IF self.closing[1].kind = "dict"
            THEN [ok |-> TRUE,
                  value |-> Section(rendered_title, rendered_subsections,
                                Some([kind |-> "str",
                                      content |-> TemplateRender(self.closing[1].content,
                                                                 closing_context)]))]
            ELSE [ok |-> FALSE, error |-> "TypeError"]
       ELSE [ok |-> TRUE,
             value |-> Section(rendered_title, rendered_subsections, None)]

-----------------------------------------------------------------------------
(* Requests: pactdesk/models/api/contract, pactdesk/models/domain *)

DISCLOSING == "DISCLOSING"
RECEIVING == "RECEIVING"
MUTUAL == "MUTUAL"

UNILATERAL_STANDARD == Txt(<<"unilateral", "/", "standard">>)
UNILATERAL_MULTI == Txt(<<"unilateral", "/", "multi">>)
MUTUAL_STANDARD == Txt(<<"mutual", "/", "standard">>)
MUTUAL_MULTI == Txt(<<"mutual", "/", "multi">>)
NdaContractVariant ==
    {UNILATERAL_STANDARD, UNILATERAL_MULTI, MUTUAL_STANDARD, MUTUAL_MULTI}

LegalEntity(name, information_role) ==
    [party_type |-> "legal_entity",
     company_type |-> Txt(<<"B.V.">>),
     name |-> name,
     registered_address |-> Txt(<<"Kade 1">>),
     country_of_incorporation |-> Txt(<<"NL">>),
     kvk_nr |-> Txt(<<"123">>),
     signatory_name |-> Txt(<<"Jan">>),
     information_role |-> information_role]

NaturalPerson(full_name, information_role) ==
    [party_type |-> "natural_person",
     full_name |-> full_name,
     address |-> Txt(<<"Dam 2">>),
     date_of_birth |-> Txt(<<"1990">>),
     place_of_birth |-> Txt(<<"Delft">>),
     country_of_birth |-> Txt(<<"NL">>),
     information_role |-> information_role]

Penalty == [initial_amount |-> 50, subsequent_amount |-> 7]
Term == [duration_amount |-> 2, duration_unit |-> Txt(<<"years">>)]

\* The display name of the i-th party of a request: "P1", "P2", ...
PartyName(i) == Txt(<<"P">>) \o IntToStr(i)

\* The party keys of a request are a prefix of one of these orders.
KeyOrders ==
    { <<"party_1", "party_2", "party_3", "party_4">>,
      <<"alice", "bob", "carol", "dave">>,
      <<"party_1", "alice", "party_2", "bob">>,
      <<"_global", "party_1", "party_2", "party_3">> }

InformationRoles == {Some(DISCLOSING), Some(RECEIVING), Some(MUTUAL)}

\* The role assignments of the model: one DISCLOSING party among RECEIVING
\* ones, every party with the same role, or the first party without a role.
RoleAssignments(n) ==
    IF n = 0 THEN {<<>>}
    ELSE {[i \in 1..n |-> IF i = d THEN Some(DISCLOSING) ELSE Some(RECEIVING)] : d \in 1..n}
         \cup {[i \in 1..n |-> role] : role \in InformationRoles}
         \cup {[i \in 1..n |-> IF i = 1 THEN None ELSE Some(RECEIVING)]}

PartyOf(kind, i, role) ==
    IF kind = "legal_entity" THEN LegalEntity(PartyName(i), role)
    ELSE NaturalPerson(PartyName(i), role)

NondisclosureRequest(order, kinds, roles, variant, penalty, term) ==
    [contract_type |-> "nondisclosure",
     parties |-> [i \in 1..Len(kinds) |->
                     [k |-> order[i], v |-> PartyOf(kinds[i], i, roles[i])]],
     applicable_law |-> Txt(<<"NL">>),
     place_of_jurisdiction |-> Txt(<<"Delft">>),
     contract_variant |-> variant,
     contract_purpose |-> Txt(<<"deal">>),
     penalty_clause |-> penalty,
     limited_term |-> term]

PartyKinds == {"legal_entity", "natural_person"}

\* BaseContractRequest.validate_parties
validate_parties(value) == value # <<>>

\* A faulty variant of validate_information_roles: the disclosing parties of a
\* unilateral variant are not counted
validate_information_roles_uncounted(self) ==
    \A i \in 1..Len(self.parties) : self.parties[i].v.information_role # None

\* NondisclosureRequest.validate_information_roles
validate_information_roles(self) ==
    LET parties == [i \in 1..Len(self.parties) |-> self.parties[i].v]
        disclosing_count ==
            Cardinality({i \in 1..Len(parties) :
                            parties[i].information_role = Some(DISCLOSING)})
    IN /\ \A i \in 1..Len(parties) : parties[i].information_role # None
       /\ self.contract_variant \in {UNILATERAL_STANDARD, UNILATERAL_MULTI}
            => disclosing_count = 1

\* pydantic runs the field validator, then the model validator
Accepted(req) == validate_parties(req.parties) /\ validate_information_roles(req)

-----------------------------------------------------------------------------
(* Context builder: pactdesk/services/context.py *)

TheDisclosingParty == Txt(<<"the Disclosing Party">>)
TheReceivingParty == Txt(<<"the Receiving Party">>)

\* The role of a party when the request has exactly two parties
\* A faulty variant of TwoPartyRole: the two phrases exchanged
TwoPartyRoleExchanged(party) ==
    IF party.information_role = Some(DISCLOSING)
    THEN Txt(<<"the Receiving Party">>)
    ELSE Txt(<<"the Disclosing Party">>)

TwoPartyRole(party) ==
    IF party.information_role = Some(DISCLOSING)
    THEN TheDisclosingParty
    ELSE TheReceivingParty

LegalEntityContext(party, role) ==
    << [k |-> "type", v |-> StrVal(Txt(<<"legal_entity">>))],
       [k |-> "name", v |-> StrVal(party.name)],
       [k |-> "company_type", v |-> StrVal(party.company_type)],
       [k |-> "country", v |-> StrVal(party.country_of_incorporation)],
       [k |-> "address", v |-> StrVal(party.registered_address)],
       [k |-> "kvk_nr", v |-> StrVal(party.kvk_nr)],
       [k |-> "representative", v |-> StrVal(party.signatory_name)],
       [k |-> "role", v |-> StrVal(role)] >>

NaturalPersonContext(party, role) ==
    << [k |-> "type", v |-> StrVal(Txt(<<"natural_person">>))],
       [k |-> "name", v |-> StrVal(party.full_name)],
       [k |-> "date_of_birth", v |-> StrVal(party.date_of_birth)],
       [k |-> "place_of_birth", v |-> StrVal(party.place_of_birth)],
       [k |-> "address", v |-> StrVal(party.address)],
       [k |-> "role", v |-> StrVal(role)] >>

\* The loop of construct_party_context over request.parties.items(). Reading
\* party.name of a party without that attribute raises AttributeError.
RECURSIVE PartyLoop(_, _, _)
PartyLoop(items, total_parties, party_context_) ==
    IF items = <<>> THEN [ok |-> TRUE, value |-> party_context_]
    ELSE LET key == Head(items).k
             party == Head(items).v
             role == IF total_parties = 2 THEN TwoPartyRole(party) ELSE party.name
         IN IF total_parties # 2 /\ "name" \notin DOMAIN party
            THEN [ok |-> FALSE, error |-> "AttributeError"]
            ELSE IF party.party_type = "legal_entity"
            THEN PartyLoop(Tail(items), total_parties,
                     Put(party_context_, key, DictVal(LegalEntityContext(party, role))))
            ELSE IF party.party_type = "natural_person"
            THEN PartyLoop(Tail(items), total_parties,
                     Put(party_context_, key, DictVal(NaturalPersonContext(party, role))))
            ELSE [ok |-> FALSE, error |-> "ValueError"]

GlobalEntry(total_parties, contract_variant) ==
    << [k |-> "n_parties", v |-> IntVal(total_parties)],
       [k |-> "contract_variant", v |-> StrVal(contract_variant)] >>

construct_party_context(req) ==
    LET total_parties == Len(req.parties)
    IN PartyLoop(req.parties, total_parties,
           << [k |-> "_global",
               v |-> DictVal(GlobalEntry(total_parties, req.contract_variant))] >>)

\* A faulty variant of construct_context: the keys of a term or penalty that
\* was not requested are there, mapped to null
construct_context_nulls(req) ==
    LET null == [t |-> "null", v |-> <<>>]
        term == req.limited_term
        penalty == req.penalty_clause
    IN << [k |-> "city", v |-> StrVal(req.place_of_jurisdiction)],
          [k |-> "country", v |-> StrVal(req.applicable_law)],
          [k |-> "purpose", v |-> StrVal(req.contract_purpose)],
          [k |-> "duration_amount",
           v |-> IF term # None THEN IntVal(term[1].duration_amount) ELSE null],
          [k |-> "duration_unit",
           v |-> IF term # None THEN StrVal(term[1].duration_unit) ELSE null],
          [k |-> "initial_amount",
           v |-> IF penalty # None THEN IntVal(penalty[1].initial_amount) ELSE null],
          [k |-> "subsequent_amount",
           v |-> IF penalty # None THEN IntVal(penalty[1].subsequent_amount) ELSE null] >>

\* construct_context for a NONDISCLOSURE request
construct_context(req) ==
    LET base == << [k |-> "city", v |-> StrVal(req.place_of_jurisdiction)],
                   [k |-> "country", v |-> StrVal(req.applicable_law)],
                   [k |-> "purpose", v |-> StrVal(req.contract_purpose)] >>
        with_term ==
            IF req.limited_term # None
            THEN Put(Put(base, "duration_amount", IntVal(req.limited_term[1].duration_amount)),
                     "duration_unit", StrVal(req.limited_term[1].duration_unit))
            ELSE base
    IN IF req.penalty_clause # None
       THEN Put(Put(with_term, "initial_amount", IntVal(req.penalty_clause[1].initial_amount)),
                "subsequent_amount", IntVal(req.penalty_clause[1].subsequent_amount))
       ELSE with_term

-----------------------------------------------------------------------------
(* Fragment files. Paths are sequences of components, file names are written *)
(* without the .json suffix.                                                 *)

\* base_path: Path = Path("templates"), the default of NondisclosureService
\* and of TemplateService
DefaultBasePath == <<"templates">>
general_path == base_path \o <<"general">>
contract_path(req) == base_path \o <<req.contract_type>>

\* self.variant, self.parties = request.contract_variant.split("/")
SplitVariant(contract_variant) ==
    [variant |-> contract_variant[1].v, parties |-> contract_variant[3].v]

variant_path(req) ==
    contract_path(req) \o <<SplitVariant(req.contract_variant).variant,
                            SplitVariant(req.contract_variant).parties>>

standard_clauses ==
    << "definitions", "nonuse_and_nondisclosure", "use_and_treatment_of",
       "data_privacy", "rights_to", "return_or_destruction_of",
       "third_party_stipulation", "no_warranty", "miscellaneous" >>

\* Clause titles, one character per token
TitleThirdParty == Txt(<<"T", "h", "i", "r", "d">>)
TitleNoWarranty ==
    Txt(<<"N", "o", " ", "W", "a", "r", "r", "a", "n", "t", "y">>)
TitleMiscellaneous == Txt(<<"M", "i", "s", "c">>)
TitleTerm == Txt(<<"T", "e", "r", "m">>)

InCity == Txt(<<"In ">>) \o Var("city") \o Txt(<<".">>)

\* The fragment stored at a path, as parsed JSON. The fragments are the same
\* for every variant directory.
Load(path) ==
    LET dir == path[Len(path) - 1]
        file == path[Len(path)]
    IN CASE dir = "sections" /\ file = "parties" -> [title |-> Txt(<<"Parties">>)]
         [] dir = "sections" /\ file = "considerations" -> [title |-> Txt(<<"Whereas">>)]
         [] dir = "sections" /\ file = "agreements" -> [title |-> Txt(<<"Agreements">>)]
         [] dir = "sections" /\ file = "signatures" ->
                [title |-> Txt(<<"Signed in ">>) \o Var("city")]
         [] dir = "parties" /\ file = "legal_entity" ->
                [content |-> Var("name") \o Txt(<<" ">>) \o Var("company_type")
                             \o Txt(<<", ">>) \o Var("role")]
         [] dir = "parties" /\ file = "natural_person" ->
                [content |-> Var("name") \o Txt(<<" *">>) \o Var("date_of_birth")
                             \o Txt(<<", ">>) \o Var("role")]
         [] dir = "parties" /\ file = "closing" ->
                [content |-> Txt(<<"The ">>) \o Var("n_parties") \o Txt(<<" parties">>)]
         [] dir = "considerations" /\ file = "considerations" ->
                [paragraphs |->
                    << [content |-> Txt(<<"For ">>) \o Var("purpose")],
                       [content |-> InCity, heading |-> Txt(<<"Law of ">>) \o Var("country"),
                        subparagraphs |-> << [content |-> Var("purpose")] >>] >>]
         [] dir = "clauses" /\ file = "definitions" ->
                [title |-> Txt(<<"D", "e", "f", "s">>),
                 paragraphs |-> << [content |-> InCity, heading |-> Txt(<<"Scope">>),
                                    subparagraphs |-> << [content |-> Var("purpose")] >>] >>]
         [] dir = "clauses" /\ file = "nonuse_and_nondisclosure" ->
                [title |-> Txt(<<"N", "o", "n", "u", "s", "e">>), paragraphs |-> << [content |-> InCity] >>]
         [] dir = "clauses" /\ file = "use_and_treatment_of" ->
                [title |-> Txt(<<"U", "s", "e">>), paragraphs |-> << [content |-> InCity] >>]
         [] dir = "clauses" /\ file = "data_privacy" ->
                [title |-> Txt(<<"D", "a", "t", "a">>), paragraphs |-> << [content |-> InCity] >>]
         [] dir = "clauses" /\ file = "rights_to" ->
                [title |-> Txt(<<"R", "i", "g", "h", "t", "s">>), paragraphs |-> << [content |-> InCity] >>]
         [] dir = "clauses" /\ file = "return_or_destruction_of" ->
                [title |-> Txt(<<"R", "e", "t", "u", "r", "n">>), paragraphs |-> << [content |-> InCity] >>]
         [] dir = "clauses" /\ file = "third_party_stipulation" ->
                [title |-> TitleThirdParty, paragraphs |-> << [content |-> InCity] >>]
         [] dir = "clauses" /\ file = "no_warranty" ->
                [title |-> TitleNoWarranty, paragraphs |-> << [content |-> InCity] >>]
         [] dir = "clauses" /\ file = "miscellaneous" ->
                [title |-> TitleMiscellaneous, paragraphs |-> << [content |-> InCity] >>]
         [] dir = "clauses" /\ file = "enforcement_and_penalties" ->
                [title |-> Txt(<<"P", "e", "n", "a", "l", "t", "i", "e", "s">>),
                 paragraphs |-> << [content |-> Var("initial_amount") \o Txt(<<"/">>)
                                                \o Var("subsequent_amount")] >>]
         [] dir = "clauses" /\ file = "enforcement_and_remedies" ->
                [title |-> Txt(<<"R", "e", "m", "e", "d", "i", "e", "s">>),
                 paragraphs |-> << [content |-> InCity] >>]
         [] dir = "clauses" /\ file = "information_receiving_party" ->
                [title |-> Txt(<<"I", "n", "f", "o", "r", "m", "a", "t", "i", "o", "n",
                                 " ", "R", "e", "c", "e", "i", "v", "i", "n", "g",
                                 " ", "P", "a", "r", "t", "y">>),
                 paragraphs |-> << [content |-> InCity] >>]
         [] dir = "term" /\ file = "limited" ->
                [title |-> TitleTerm,
                 paragraphs |-> << [content |-> Var("duration_amount") \o Txt(<<" ">>)
                                                \o Var("duration_unit")] >>]
         [] dir = "term" /\ file = "unlimited" ->
                [title |-> TitleTerm, paragraphs |-> << [content |-> Txt(<<"Unlimited">>)] >>]

\* The titles the three last baseline clause files may carry on disk: one
\* match (in either of two places), none, two, three.
TitlesOnDisk ==
    { [third_party_stipulation |-> a, no_warranty |-> b, miscellaneous |-> c] :
        a \in {TitleThirdParty, Txt(<<"n", "o", " ", "w", "a", "r", "r", "a", "n", "t", "y", " ", "3">>)},
        b \in {TitleNoWarranty, Txt(<<"W", "a", "r", "r", "a", "n", "t", "y">>)},
        c \in {TitleMiscellaneous, Txt(<<"N", "O", " ", "W", "A", "R", "R", "A", "N", "T", "Y", " ", "X">>)} }

\* Load of a baseline clause file whose title on disk is given by titles
LoadClause(path, titles) ==
    IF path[Len(path)] \in DOMAIN titles
    THEN [Load(path) EXCEPT !.title = titles[path[Len(path)]]]
    ELSE Load(path)

\* Paragraph(**data), BaseText(**data), Clause(**data) on parsed JSON
BaseTextOf(data) == BaseText(data.content)

ParagraphOf(data) ==
    Paragraph(data.content,
              IF "heading" \in DOMAIN data THEN Some(data.heading) ELSE None,
              IF "subparagraphs" \in DOMAIN data
              THEN Some([i \in 1..Len(data.subparagraphs) |->
                            BaseTextOf(data.subparagraphs[i])])
              ELSE None)

ClauseOf(data) ==
    Clause(data.title, [i \in 1..Len(data.paragraphs) |-> ParagraphOf(data.paragraphs[i])])

-----------------------------------------------------------------------------
(* Section assembler: pactdesk/services/nondisclosure.py *)

\* list.insert(index, item), index counted from 0
\* A faulty variant of Insert: the item lands behind the element at index
InsertBehind(list, index, item) ==
    IF index + 1 >= Len(list) THEN Append(list, item)
    ELSE SubSeq(list, 1, index + 1) \o <<item>> \o SubSeq(list, index + 2, Len(list))

Insert(list, index, item) ==
    IF index >= Len(list) THEN Append(list, item)
    ELSE SubSeq(list, 1, index) \o <<item>> \o SubSeq(list, index + 1, Len(list))

\* clause.title.lower().startswith("no warranty")
IsNoWarranty(clause) ==
    StartsWith(Lower(clause.title),
               Txt(<<"n", "o", " ", "w", "a", "r", "r", "a", "n", "t", "y">>))

\* Positions (from 1) of the clauses the anchor lookup matches
NoWarrantyMatches(clauses) == {i \in 1..Len(clauses) : IsNoWarranty(clauses[i])}

\* next(i for i, clause in enumerate(clauses) if ...): the first match, from 0
FirstMatch(matches) == (CHOOSE i \in matches : \A j \in matches : i <= j) - 1

\* TemplateService.load_legal_entity / load_natural_person
\* self.template_service = TemplateService(): the template service is built
\* without an argument, so its base_path is the default one
LegalEntityPath == DefaultBasePath \o <<"general", "parties", "legal_entity">>
NaturalPersonPath == DefaultBasePath \o <<"general", "parties", "natural_person">>
load_legal_entity == BaseTextOf(Load(LegalEntityPath))
load_natural_person == BaseTextOf(Load(NaturalPersonPath))

SectionPath(section_name) == general_path \o <<"sections", section_name>>

create_section(section_name, subsections) ==
    LET section_template == Load(SectionPath(section_name))
    IN Section(section_template.title, subsections, None)

NotGlobal(key) == key # "_global"

ClosingPath(req) == variant_path(req) \o <<"parties", "closing">>

\* The party keys _generate_parties iterates over
GeneratedPartyKeys(req) ==
    SelectSeq(Keys(construct_party_context(req).value), NotGlobal)

IsLegalEntityKey(req, party) ==
    Get(Get(construct_party_context(req).value, party).v, "type")
        = StrVal(Txt(<<"legal_entity">>))

\* section.closing is assigned the loaded dict after the Section is built
generate_parties(req) ==
    LET party_keys == GeneratedPartyKeys(req)
        subsections ==
            [i \in 1..Len(party_keys) |->
                IF IsLegalEntityKey(req, party_keys[i])
                THEN load_legal_entity
                ELSE load_natural_person]
        section == create_section("parties", subsections)
    IN [section EXCEPT !.closing =
            Some([kind |-> "dict", content |-> Load(ClosingPath(req)).content])]

PartiesReads(req) ==
    LET party_keys == GeneratedPartyKeys(req)
    IN {IF IsLegalEntityKey(req, party_keys[i]) THEN LegalEntityPath ELSE NaturalPersonPath :
            i \in 1..Len(party_keys)}
       \cup {SectionPath("parties"), ClosingPath(req)}

ConsiderationsPath(req) == variant_path(req) \o <<"considerations", "considerations">>

ConsiderationsReads(req) == {ConsiderationsPath(req), SectionPath("considerations")}

generate_considerations(req) ==
    LET considerations_data == Load(ConsiderationsPath(req))
        items == IF "paragraphs" \in DOMAIN considerations_data
                 THEN considerations_data.paragraphs
                 ELSE <<>>
        paragraphs ==
            [i \in 1..Len(items) |->
                IF "heading" \in DOMAIN items[i] \/ "subparagraphs" \in DOMAIN items[i]
                THEN ParagraphOf(items[i])
                ELSE BaseTextOf(items[i])]
    IN create_section("considerations", paragraphs)

agreements_path(req) == variant_path(req) \o <<"agreements">>
clauses_path(req) == agreements_path(req) \o <<"clauses">>

\* The baseline clauses as loaded from the clause files
LoadBaseline(req, titles) ==
    [i \in 1..Len(standard_clauses) |->
        ClauseOf(LoadClause(clauses_path(req) \o <<standard_clauses[i]>>, titles))]

\* A faulty variant of TermPath: the condition inverted
TermPathInverted(req) ==
    LET term_type == IF req.limited_term = None THEN "limited" ELSE "unlimited"
    IN agreements_path(req) \o <<"term", term_type>>

TermPath(req) ==
    LET term_type == IF req.limited_term # None THEN "limited" ELSE "unlimited"
    IN agreements_path(req) \o <<"term", term_type>>

\* A faulty variant of EnforcementPath: the condition inverted
EnforcementPathInverted(req) ==
    IF req.penalty_clause = None
    THEN clauses_path(req) \o <<"enforcement_and_penalties">>
    ELSE clauses_path(req) \o <<"enforcement_and_remedies">>

EnforcementPath(req) ==
    IF req.penalty_clause # None
    THEN clauses_path(req) \o <<"enforcement_and_penalties">>
    ELSE clauses_path(req) \o <<"enforcement_and_remedies">>

ReceivingPartyPath(req) == clauses_path(req) \o <<"information_receiving_party">>

TermClause(req) == ClauseOf(Load(TermPath(req)))
EnforcementClause(req) == ClauseOf(Load(EnforcementPath(req)))
InformationReceivingPartyClause(req) == ClauseOf(Load(ReceivingPartyPath(req)))

\* A faulty variant of IsUnilateral: every variant counts as unilateral
IsUnilateralAlways(req) == req.contract_variant \in NdaContractVariant

IsUnilateral(req) == req.contract_variant \in {UNILATERAL_STANDARD, UNILATERAL_MULTI}

\* The files _generate_agreements reads: the lookup of the anchor fails
\* before the receiving-party clause and the section file are read.
AgreementsReads(req, clauses) ==
    {clauses_path(req) \o <<standard_clauses[i]>> : i \in 1..Len(standard_clauses)}
    \cup {TermPath(req), EnforcementPath(req)}
    \cup (IF NoWarrantyMatches(clauses) = {} THEN {}
          ELSE {SectionPath("agreements")}
               \cup (IF IsUnilateral(req) THEN {ReceivingPartyPath(req)} ELSE {}))

\* _generate_agreements on the loaded baseline clauses:
\* [ok |-> TRUE, value |-> Section] or [ok |-> FALSE, error |-> "StopIteration"]
generate_agreements(req, clauses) ==
    LET matches == NoWarrantyMatches(clauses)
        no_warranty_index == FirstMatch(matches)
        with_enforcement == Insert(clauses, no_warranty_index, EnforcementClause(req))
        with_term == Insert(with_enforcement, no_warranty_index, TermClause(req))
        all_clauses ==
            IF IsUnilateral(req)
            THEN Insert(with_term, no_warranty_index + 2,
                        InformationReceivingPartyClause(req))
            ELSE with_term
    IN IF matches = {}
       THEN [ok |-> FALSE, error |-> "StopIteration"]
       ELSE [ok |-> TRUE, value |-> create_section("agreements", all_clauses)]

generate_signatures == create_section("signatures", <<>>)

SignaturesReads == {SectionPath("signatures")}

Contract(parties, considerations, agreements, signatures) ==
    [kind |-> "Contract", parties |-> parties, considerations |-> considerations,
     agreements |-> agreements, signatures |-> signatures]

-----------------------------------------------------------------------------
(* One request through validation, NondisclosureService(request) and          *)
(* generate(). The arguments of Contract(...) are evaluated left to right,    *)
(* each section assembled and then rendered.                                  *)

SectionNames == {"parties", "considerations", "agreements", "signatures"}

NoResult == [kind |-> "none"]
Error(e) == [kind |-> "error", error |-> e]

\* The request as received: up to MaxParties parties (none: rejected), any
\* variant, with or without penalty clause and limited term.
ReceiveRequest ==
    \E n \in 0..MaxParties, order \in KeyOrders, variant \in NdaContractVariant,
       penalty \in {None, Some(Penalty)}, term \in {None, Some(Term)} :
        \E kinds \in [1..n -> PartyKinds], roles \in RoleAssignments(n) :
            request = NondisclosureRequest(order, kinds, roles, variant, penalty, term)

Init ==
    /\ ReceiveRequest
    /\ pc = "request"
    /\ context = None
    /\ party_context = None
    /\ baseline = None
    /\ raw = [s \in SectionNames |-> None]
    /\ rendered = [s \in SectionNames |-> None]
    /\ result = NoResult
    /\ reads = {}
    /\ node = None
    /\ scope = <<>>
    /\ out = None
    /\ disk = <<>>
    /\ load_path = <<>>
    /\ base_path = DefaultBasePath

Fail(e) ==
    /\ pc' = "failed"
    /\ result' = Error(e)

\* NondisclosureRequest(**data): the validators of the request model
Validate ==
    /\ pc = "request"
    /\ IF Accepted(request)
       THEN pc' = "validated" /\ result' = result
       ELSE Fail("ValidationError")
    /\ UNCHANGED <<request, context, party_context, baseline, raw, rendered,
                   reads, node, scope, out>>

\* NondisclosureService.__init__
NewService ==
    /\ pc = "validated"
    /\ LET built == construct_party_context(request)
       IN IF built.ok
          THEN /\ context' = Some(construct_context(request))
               /\ party_context' = Some(built.value)
               /\ pc' = "constructed"
               /\ result' = result
          ELSE /\ Fail(built.error)
               /\ UNCHANGED <<context, party_context>>
    /\ UNCHANGED <<request, baseline, raw, rendered, reads, node, scope, out>>

Assemble(name, section, files, next) ==
    /\ raw' = [raw EXCEPT ![name] = Some(section)]
    /\ reads' = reads \cup files
    /\ pc' = next
    /\ UNCHANGED <<request, context, party_context, rendered, result,
                   node, scope, out>>

Render(name, ctx, next) ==
    /\ LET r == SectionRender(raw[name][1], ctx)
       IN IF r.ok
          THEN /\ rendered' = [rendered EXCEPT ![name] = Some(r.value)]
               /\ pc' = next
               /\ result' = result
          ELSE /\ Fail(r.error)
               /\ rendered' = rendered
    /\ UNCHANGED <<request, context, party_context, baseline, raw, reads,
                   node, scope, out>>

AssembleParties ==
    /\ pc = "constructed"
    /\ Assemble("parties", generate_parties(request), PartiesReads(request), "parties")
    /\ UNCHANGED baseline

RenderParties ==
    /\ pc = "parties"
    /\ Render("parties", party_context[1], "parties_rendered")

AssembleConsiderations ==
    /\ pc = "parties_rendered"
    /\ Assemble("considerations", generate_considerations(request),
                ConsiderationsReads(request), "considerations")
    /\ UNCHANGED baseline

RenderConsiderations ==
    /\ pc = "considerations"
    /\ Render("considerations", context[1], "considerations_rendered")

\* The clause files are read when _generate_agreements runs
AssembleAgreements ==
    /\ pc = "considerations_rendered"
    /\ \E titles \in TitlesOnDisk :
         LET clauses == LoadBaseline(request, titles)
             built == generate_agreements(request, clauses)
         IN /\ baseline' = Some(clauses)
            /\ IF built.ok
               THEN Assemble("agreements", built.value,
                             AgreementsReads(request, clauses), "agreements")
               ELSE /\ Fail(built.error)
                    /\ reads' = reads \cup AgreementsReads(request, clauses)
                    /\ UNCHANGED <<request, context, party_context, raw, rendered,
                                   node, scope, out>>

RenderAgreements ==
    /\ pc = "agreements"
    /\ Render("agreements", context[1], "agreements_rendered")

AssembleSignatures ==
    /\ pc = "agreements_rendered"
    /\ Assemble("signatures", generate_signatures, SignaturesReads, "signatures")
    /\ UNCHANGED baseline

RenderSignatures ==
    /\ pc = "signatures"
    /\ Render("signatures", context[1], "signatures_rendered")

\* return Contract(parties=..., considerations=..., agreements=..., signatures=...)
Return ==
    /\ pc = "signatures_rendered"
    /\ result' = Contract(rendered["parties"][1], rendered["considerations"][1],
                          rendered["agreements"][1], rendered["signatures"][1])
    /\ pc' = "done"
    /\ UNCHANGED <<request, context, party_context, baseline, raw, rendered,
                   reads, node, scope, out>>

Next ==
    \/ Validate
    \/ NewService
    \/ AssembleParties
    \/ RenderParties
    \/ AssembleConsiderations
    \/ RenderConsiderations
    \/ AssembleAgreements
    \/ RenderAgreements
    \/ AssembleSignatures
    \/ RenderSignatures
    \/ Return

Spec == Init /\ [][Next /\ UNCHANGED <<disk, load_path, base_path>>]_vars

-----------------------------------------------------------------------------
(* Single render calls: BaseText.render, Paragraph.render, Clause.render and *)
(* Section.render on a node and a context drawn from bounded sets.           *)

Hello == Txt(<<"Hello">>)
DearName == Txt(<<"Dear ">>) \o Var("name")
RoleForPurpose == Var("role") \o Txt(<<" for ">>) \o Var("purpose")
ThePartiesClosing == Txt(<<"The ">>) \o Var("n_parties") \o Txt(<<" parties">>)

BaseTexts ==
    {BaseText(Hello), BaseText(DearName), BaseText(RoleForPurpose),
     BaseText(Hello \o <<Newline>>), BaseText(Hello \o <<Newline, Newline>>)}

Paragraphs ==
    { Paragraph(content, heading, subparagraphs) :
        content \in {Hello, DearName},
        heading \in {None, Some(Txt(<<"Art. ">>) \o Var("purpose"))},
        subparagraphs \in {None, Some(<<>>), Some(<<BaseText(DearName)>>),
                           Some(<<BaseText(Hello), BaseText(RoleForPurpose)>>)} }

AParagraph == Paragraph(DearName, Some(Hello), Some(<<BaseText(RoleForPurpose)>>))

Clauses ==
    { Clause(title, paragraphs) :
        title \in {Hello, Txt(<<"On ">>) \o Var("purpose")},
        paragraphs \in {<<>>, <<AParagraph>>, <<Paragraph(Hello, None, None), AParagraph>>} }

SubsectionNodes == {BaseText(DearName), BaseText(RoleForPurpose), AParagraph}

Closings ==
    {None, Some([kind |-> "dict", content |-> ThePartiesClosing]),
     Some([kind |-> "BaseText", content |-> ThePartiesClosing])}

Sections ==
    UNION { { Section(Txt(<<"Parties">>), subsections, closing) :
                subsections \in [1..n -> SubsectionNodes], closing \in Closings } :
            n \in 0..MaxSubsections }

FlatScopes ==
    { <<>>,
      << [k |-> "name", v |-> StrVal(Txt(<<"Ann">>))] >>,
      << [k |-> "name", v |-> StrVal(Txt(<<"Ann">>))],
         [k |-> "role", v |-> StrVal(TheReceivingParty)],
         [k |-> "purpose", v |-> StrVal(Txt(<<"deal">>))],
         [k |-> "n_parties", v |-> IntVal(12)] >> }

\* The party context of n legal entities keyed by a key order
PartyScope(order, n) ==
    construct_party_context(
        NondisclosureRequest(order, [i \in 1..n |-> "legal_entity"],
                             [i \in 1..n |-> Some(RECEIVING)],
                             MUTUAL_MULTI, None, None)).value

WithoutGlobal(ctx) == SelectSeq(ctx, LAMBDA e : "n_parties" \notin {f.k : f \in {e.v.v[i] : i \in 1..Len(e.v.v)}})

PartyScopes ==
    UNION { {PartyScope(order, n), WithoutGlobal(PartyScope(order, n))} :
            order \in KeyOrders, n \in 1..MaxParties }

InitRender ==
    /\ node \in BaseTexts \cup Paragraphs \cup Clauses \cup Sections
    /\ scope \in FlatScopes \cup PartyScopes
    /\ out = None
    /\ pc = "call"
    /\ result = NoResult
    /\ request = <<>>
    /\ context = None
    /\ party_context = None
    /\ baseline = None
    /\ raw = <<>>
    /\ rendered = <<>>
    /\ reads = {}
    /\ disk = <<>>
    /\ load_path = <<>>
    /\ base_path = DefaultBasePath

\* What a render call hands back: every render method ends in a constructor
\* call, so the caller gets a new object, never the input itself
NewObject == [kind |-> "new"]

\* A faulty variant of Returned: the node is rendered in place and handed back
ReturnedInPlace(value) ==
    /\ node' = value
    /\ out' = Some(value)
    /\ result' = [kind |-> "self"]
    /\ pc' = "returned"
    /\ UNCHANGED <<request, context, party_context, baseline, raw, rendered,
                   reads, scope>>

Returned(value) ==
    /\ out' = Some(value)
    /\ result' = NewObject
    /\ pc' = "returned"
    /\ UNCHANGED <<request, context, party_context, baseline, raw, rendered,
                   reads, node, scope>>

CallBaseTextRender ==
    /\ pc = "call"
    /\ node.cls = "BaseText"
    /\ Returned(BaseTextRender(node, scope))

CallParagraphRender ==
    /\ pc = "call"
    /\ node.cls = "Paragraph"
    /\ Returned(ParagraphRender(node, scope))

CallClauseRender ==
    /\ pc = "call"
    /\ node.cls = "Clause"
    /\ Returned(ClauseRender(node, scope))

CallSectionRender ==
    /\ pc = "call"
    /\ node.cls = "Section"
    /\ LET r == SectionRender(node, scope)
       IN IF r.ok
          THEN Returned(r.value)
          ELSE /\ pc' = "raised"
               /\ result' = Error(r.error)
               /\ UNCHANGED <<request, context, party_context, baseline, raw,
                              rendered, reads, node, scope, out>>

NextRender ==
    \/ CallBaseTextRender
    \/ CallParagraphRender
    \/ CallClauseRender
    \/ CallSectionRender

SpecRender == InitRender /\ [][NextRender /\ UNCHANGED <<disk, load_path, base_path>>]_vars

-----------------------------------------------------------------------------
(* Properties of the agreements assembly (generate, _generate_agreements).   *)

\* The clauses the fragment files yield, before and after rendering
Fragments(paths) ==
    {ClauseOf(Load(path)) : path \in paths} \cup
    (IF context = None THEN {}
     ELSE {ClauseRender(ClauseOf(Load(path)), context[1]) : path \in paths})

\* The positions (from 1) of a section's subsections that come from one of the files
Positions(section, paths) ==
    LET fragments == Fragments(paths)
    IN {i \in 1..Len(section.subsections) : section.subsections[i] \in fragments}

NoWarrantyPositions(section) ==
    {i \in 1..Len(section.subsections) : IsNoWarranty(section.subsections[i])}

TermPaths ==
    {agreements_path(request) \o <<"term", name>> : name \in {"limited", "unlimited"}}

PenaltiesPath == clauses_path(request) \o <<"enforcement_and_penalties">>
RemediesPath == clauses_path(request) \o <<"enforcement_and_remedies">>
InformationReceivingPartyPath == clauses_path(request) \o <<"information_receiving_party">>

TwoPartyUnilateralStandard ==
    /\ Len(request.parties) = 2
    /\ request.contract_variant = UNILATERAL_STANDARD

UniqueAnchor == baseline # None /\ Cardinality(NoWarrantyMatches(baseline[1])) = 1

MutualVariant == request.contract_variant \in {MUTUAL_STANDARD, MUTUAL_MULTI}

\* C1 as stated: for a two-party unilateral/standard request over a baseline
\* with exactly one no-warranty clause, the returned agreements section holds
\* exactly one term clause, one enforcement clause and one
\* information-receiving-party clause, and the term clause, the enforcement
\* clause and the no-warranty clause are three consecutive subsections.
C1_ThreeConsecutive ==
    (result.kind = "Contract" /\ TwoPartyUnilateralStandard /\ UniqueAnchor) =>
        LET section == result.agreements
        IN /\ Cardinality(Positions(section, TermPaths)) = 1
           /\ Cardinality(Positions(section, {PenaltiesPath, RemediesPath})) = 1
           /\ Cardinality(Positions(section, {InformationReceivingPartyPath})) = 1
           /\ \E i \in 1..Len(section.subsections) :
                /\ Positions(section, TermPaths) = {i}
                /\ Positions(section, {PenaltiesPath, RemediesPath}) = {i + 1}
                /\ i + 2 \in NoWarrantyPositions(section)

\* C1 amended: for a two-party unilateral/standard request over a baseline
\* with exactly one no-warranty clause, the returned agreements section holds
\* exactly one term clause, one enforcement clause and one
\* information-receiving-party clause, and the term clause, the enforcement
\* clause, the information-receiving-party clause and the no-warranty clause
\* are four consecutive subsections in that order.
C1_FourConsecutive ==
    (result.kind = "Contract" /\ TwoPartyUnilateralStandard /\ UniqueAnchor) =>
        LET section == result.agreements
        IN \E i \in 1..Len(section.subsections) :
                /\ Positions(section, TermPaths) = {i}
                /\ Positions(section, {PenaltiesPath, RemediesPath}) = {i + 1}
                /\ Positions(section, {InformationReceivingPartyPath}) = {i + 2}
                /\ NoWarrantyPositions(section) = {i + 3}

C1_Witness ==
    /\ result.kind = "Contract"
    /\ TwoPartyUnilateralStandard
    /\ UniqueAnchor
    /\ request.penalty_clause # None
    /\ request.limited_term = None
    /\ Len(result.agreements.subsections) = Len(baseline[1]) + 3

\* C2: for a mutual variant the information-receiving-party fragment is never
\* read and no subsection of the agreements section, assembled, rendered or
\* returned, is the information-receiving-party clause.
C2_NoReceivingPartyClauseWhenMutual ==
    MutualVariant =>
        /\ InformationReceivingPartyPath \notin reads
        /\ \A section \in {raw["agreements"], rendered["agreements"]} :
              section # None =>
                  Positions(section[1], {InformationReceivingPartyPath}) = {}
        /\ result.kind = "Contract" =>
              Positions(result.agreements, {InformationReceivingPartyPath}) = {}

C2_Witness ==
    /\ result.kind = "Contract"
    /\ MutualVariant
    /\ Len(result.agreements.subsections) = Len(baseline[1]) + 2

\* C3: when the baseline clause list holds zero or more than one clause whose
\* lower-cased title begins with "no warranty", generation fails with an
\* error and no agreements section is produced.
C3_AnchorMustBeUnique ==
    (baseline # None /\ Cardinality(NoWarrantyMatches(baseline[1])) # 1) =>
        /\ pc = "failed"
        /\ result.kind = "error"
        /\ raw["agreements"] = None

\* C4: every assembled agreements section holds exactly one enforcement
\* clause: the penalties clause when the request carries a penalty clause,
\* the remedies clause otherwise; only that one enforcement fragment is read.
C4_OneEnforcementClause ==
    LET expected == IF request.penalty_clause # None THEN PenaltiesPath ELSE RemediesPath
    IN baseline # None =>
        /\ reads \cap {PenaltiesPath, RemediesPath} = {expected}
        /\ \A section \in {raw["agreements"], rendered["agreements"]} :
              section # None =>
                  /\ Cardinality(Positions(section[1], {PenaltiesPath, RemediesPath})) = 1
                  /\ Positions(section[1], {expected}) =
                        Positions(section[1], {PenaltiesPath, RemediesPath})

C4_Witness ==
    /\ result.kind = "Contract"
    /\ request.penalty_clause # None
    /\ Cardinality(Positions(result.agreements, {PenaltiesPath})) = 1

-----------------------------------------------------------------------------
(* Properties of generate() as a whole and of the party context.             *)

\* text is template with every reference replaced by the value of its key
Evaluated(template, text, ctx) ==
    /\ \A i \in 1..Len(template) : template[i].t = "var" => HasKey(ctx, template[i].v)
    /\ text = TemplateRender(template, ctx)

FullBaseText(template, text, ctx) ==
    /\ text.cls = "BaseText"
    /\ Evaluated(template.content, text.content, ctx)

FullParagraph(template, text, ctx) ==
    LET before == IF template.subparagraphs = None THEN <<>> ELSE template.subparagraphs[1]
        after == IF text.subparagraphs = None THEN <<>> ELSE text.subparagraphs[1]
    IN /\ text.cls = "Paragraph"
       /\ Evaluated(template.content, text.content, ctx)
       /\ (template.heading = None) = (text.heading = None)
       /\ template.heading # None /\ text.heading # None =>
              Evaluated(template.heading[1], text.heading[1], ctx)
       /\ Len(after) = Len(before)
       /\ \A i \in 1..Min(Len(before), Len(after)) : FullBaseText(before[i], after[i], ctx)

FullClause(template, text, ctx) ==
    /\ text.cls = "Clause"
    /\ Evaluated(template.title, text.title, ctx)
    /\ Len(text.paragraphs) = Len(template.paragraphs)
    /\ \A i \in 1..Min(Len(template.paragraphs), Len(text.paragraphs)) :
          FullParagraph(template.paragraphs[i], text.paragraphs[i], ctx)

FullNode(template, text, ctx) ==
    /\ text.cls = template.cls
    /\ CASE template.cls = "BaseText" -> FullBaseText(template, text, ctx)
         [] template.cls = "Paragraph" -> FullParagraph(template, text, ctx)
         [] template.cls = "Clause" -> FullClause(template, text, ctx)

\* The scope the k-th subsection of a section of the contract is meant for:
\* the sub-context of the k-th party for the parties section, the shared
\* context for the other sections
IntendedScope(name, k) ==
    IF name = "parties"
    THEN IF k <= Len(request.parties)
         THEN Get(party_context[1], request.parties[k].k).v
         ELSE <<>>
    ELSE context[1]

IntendedClosingScope(name) ==
    Put(IF name = "parties" THEN party_context[1] ELSE context[1],
        "n_parties", IntVal(Len(request.parties)))

FullSection(name, template, text) ==
    /\ Evaluated(template.title, text.title, context[1])
    /\ Len(text.subsections) = Len(template.subsections)
    /\ \A k \in 1..Min(Len(template.subsections), Len(text.subsections)) :
          FullNode(template.subsections[k], text.subsections[k], IntendedScope(name, k))
    /\ (template.closing = None) = (text.closing = None)
    /\ template.closing # None /\ text.closing # None =>
          Evaluated(template.closing[1].content, text.closing[1].content,
                    IntendedClosingScope(name))

\* C5: a Contract returned by generate() has its four sections, parties,
\* considerations, agreements and signatures, each one present and fully
\* rendered: every part of the assembled section is kept and every reference
\* in it is replaced by the value of its variable.
C5_ContractFullyRendered ==
    result.kind = "Contract" =>
        \A name \in SectionNames :
            /\ raw[name] # None
            /\ FullSection(name, raw[name][1], result[name])

\* The role and the name the party context records for the party under key
RoleOf(key) == Get(Get(party_context[1], key).v, "role").v
NameOf(key) == Get(Get(party_context[1], key).v, "name").v

RolePhrases == {TheDisclosingParty, TheReceivingParty}

\* C8: in a party context a party's role is one of the phrases "the Disclosing
\* Party" and "the Receiving Party" exactly when the request has two parties;
\* then it is "the Disclosing Party" for a party whose information role is
\* DISCLOSING and "the Receiving Party" for one whose role is RECEIVING.
C8_RolePhraseIffTwoParties ==
    party_context # None =>
        \A i \in 1..Len(request.parties) :
            LET key == request.parties[i].k
                party == request.parties[i].v
            IN /\ (RoleOf(key) \in RolePhrases) <=> (Len(request.parties) = 2)
               /\ Len(request.parties) = 2 /\ party.information_role = Some(DISCLOSING) =>
                      RoleOf(key) = TheDisclosingParty
               /\ Len(request.parties) = 2 /\ party.information_role = Some(RECEIVING) =>
                      RoleOf(key) = TheReceivingParty

C8_Witness ==
    /\ party_context # None
    /\ Len(request.parties) = 2
    /\ request.parties[1].v.information_role = Some(DISCLOSING)
    /\ RoleOf(request.parties[1].k) = TheDisclosingParty
    /\ RoleOf(request.parties[2].k) = TheReceivingParty

C8_WitnessOtherCount ==
    /\ party_context # None
    /\ Len(request.parties) = 3
    /\ RoleOf(request.parties[3].k) = PartyName(3)

\* C9: for an accepted request whose party count is not two, the party
\* context is built and records each party's own name as that party's role.
C9_RoleIsNameOtherwise ==
    (pc \notin {"request", "validated"} /\ Accepted(request)
        /\ Len(request.parties) # 2) =>
        /\ party_context # None
        /\ \A i \in 1..Len(request.parties) :
              RoleOf(request.parties[i].k) = NameOf(request.parties[i].k)

\* C10: every party context has the entry _global, whose n_parties is the
\* number of parties of the request.
C10_GlobalHoldsPartyCount ==
    party_context # None =>
        /\ HasKey(party_context[1], "_global")
        /\ HasKey(Get(party_context[1], "_global").v, "n_parties")
        /\ Get(Get(party_context[1], "_global").v, "n_parties") =
              IntVal(Len(request.parties))

-----------------------------------------------------------------------------
(* Properties of the single render calls.                                    *)

\* The variable names a template string references
TemplateRefs(template) ==
    {template[i].v : i \in {j \in 1..Len(template) : template[j].t = "var"}}

ParagraphRefs(p) ==
    TemplateRefs(p.content)
    \cup (IF p.heading = None THEN {} ELSE TemplateRefs(p.heading[1]))
    \cup (IF p.subparagraphs = None THEN {}
          ELSE UNION {TemplateRefs(p.subparagraphs[1][i].content) :
                        i \in 1..Len(p.subparagraphs[1])})

ClauseRefs(c) ==
    TemplateRefs(c.title) \cup UNION {ParagraphRefs(c.paragraphs[i]) : i \in 1..Len(c.paragraphs)}

SubsectionRefs(n) ==
    CASE n.cls = "BaseText" -> TemplateRefs(n.content)
      [] n.cls = "Paragraph" -> ParagraphRefs(n)
      [] n.cls = "Clause" -> ClauseRefs(n)

\* The references a render call resolves in the supplied context itself: all
\* of a BaseText, Paragraph or Clause, and of a Section its title and its
\* subsections
NodeRefs(n) ==
    IF n.cls = "Section"
    THEN TemplateRefs(n.title)
         \cup UNION {SubsectionRefs(n.subsections[i]) : i \in 1..Len(n.subsections)}
    ELSE SubsectionRefs(n)

\* A context of plain values, none of them a sub-context
IsFlat(ctx) == \A i \in 1..Len(ctx) : ctx[i].v.t # "dict"

\* A mapping from keys to sub-contexts
IsPartyContext(ctx) == ctx # <<>> /\ \A i \in 1..Len(ctx) : ctx[i].v.t = "dict"

\* C6: a render call on a node (BaseText, Paragraph, Clause, or a Section
\* rendered against a context of plain values) that references a variable
\* name which is no key of the supplied context raises an error and returns
\* no node.
C6_MissingKeyRaises ==
    (/\ pc \in {"returned", "raised"}
     /\ node.cls = "Section" => IsFlat(scope)
     /\ \E name \in NodeRefs(node) : ~HasKey(scope, name)) =>
        /\ pc = "raised"
        /\ result.kind = "error"
        /\ out = None

\* The subsections Section.render returns when it renders the first
\* subsections one by one against the sub-contexts of the given keys
Aligned(keys) ==
    [k \in 1..Min(Len(node.subsections), Len(keys)) |->
        NodeRender(node.subsections[k], Get(scope, keys[k]).v)]

\* C7 as stated: Section.render on a party context returns
\* min(len(subsections), number of party keys) subsections, the k-th one being
\* the k-th subsection rendered against the sub-context of the k-th party key
\* (the keys other than _global, in iteration order).
C7_AlignedWithPartyKeys ==
    (pc = "returned" /\ node.cls = "Section" /\ IsPartyContext(scope)) =>
        out[1].subsections = Aligned(SelectSeq(Keys(scope), NotGlobal))

\* C7 amended: Section.render on a party context in which some key begins
\* with "party_" returns min(len(subsections), number of such keys)
\* subsections, the k-th one being the k-th subsection rendered against the
\* sub-context of the k-th key beginning with "party_" in iteration order;
\* when no key begins with "party_" it returns every subsection rendered
\* against the whole mapping.
C7_AlignedWithPrefixedKeys ==
    (pc = "returned" /\ node.cls = "Section" /\ IsPartyContext(scope)) =>
        LET prefixed == SelectSeq(Keys(scope), LAMBDA key : key \in PartyPrefixedKeys)
        IN IF prefixed # <<>>
           THEN out[1].subsections = Aligned(prefixed)
           ELSE out[1].subsections =
                    [k \in 1..Len(node.subsections) |-> NodeRender(node.subsections[k], scope)]

\* Truncation: more subsections than prefixed keys, and a key without the prefix
C7_Witness ==
    /\ pc = "returned"
    /\ node.cls = "Section"
    /\ IsPartyContext(scope)
    /\ Keys(scope) = <<"_global", "party_1", "alice">>
    /\ Len(node.subsections) = 2
    /\ Len(out[1].subsections) = 1
    /\ out[1].subsections[1] = NodeRender(node.subsections[1], Get(scope, "party_1").v)

\* No prefixed key: the whole mapping is the context of every subsection
C7_WitnessNoPrefix ==
    /\ pc = "returned"
    /\ node.cls = "Section"
    /\ Keys(scope) = <<"_global", "alice", "bob">>
    /\ Len(node.subsections) = 1
    /\ out[1].subsections[1] = NodeRender(node.subsections[1], scope)

-----------------------------------------------------------------------------
(* Further properties of the single render calls.                            *)

\* C11: Paragraph.render returns a Paragraph whose content is the input's
\* content evaluated against the context, whose heading, when the input has
\* one, is the input's heading evaluated against the context, and whose
\* subparagraphs are the input's subparagraphs, same count and order, each
\* rendered against the same context.
C11_ParagraphKeepsHeading ==
    (pc = "returned" /\ node.cls = "Paragraph") =>
        LET before == IF node.subparagraphs = None THEN <<>> ELSE node.subparagraphs[1]
            after == IF out[1].subparagraphs = None THEN <<>> ELSE out[1].subparagraphs[1]
        IN /\ out[1].cls = "Paragraph"
           /\ out[1].content = TemplateRender(node.content, scope)
           /\ node.heading # None =>
                 out[1].heading = Some(TemplateRender(node.heading[1], scope))
           /\ after = [i \in 1..Len(before) |-> BaseTextRender(before[i], scope)]

\* The context the closing of a section is meant to be evaluated against:
\* the supplied one, with n_parties copied from its _global entry if it has one
AugmentedScope ==
    IF HasKey(scope, "_global") /\ Get(scope, "_global").t = "dict"
       /\ HasKey(Get(scope, "_global").v, "n_parties")
    THEN Put(scope, "n_parties", Get(Get(scope, "_global").v, "n_parties"))
    ELSE scope

\* C12: Section.render on a section with a closing returns a section with a
\* closing, which is the closing template evaluated against the supplied
\* context augmented with the n_parties of its _global entry when there is
\* one, and against the supplied context as it is when there is none.
C12_ClosingAlwaysRendered ==
    (pc \in {"returned", "raised"} /\ node.cls = "Section" /\ node.closing # None) =>
        /\ pc = "returned"
        /\ out[1].closing # None
        /\ out[1].closing[1].content =
              TemplateRender(node.closing[1].content, AugmentedScope)

C13_WitnessRaised ==
    /\ pc = "raised"
    /\ node.cls = "Section"
    /\ node.closing # None
    /\ out = None

\* C14: BaseText.render on a content without references returns a node with
\* the very same content, whatever the context, and rendering that result
\* again returns the same content once more.
C14_MarkerFreeTextUnchanged ==
    (pc = "returned" /\ node.cls = "BaseText" /\ TemplateRefs(node.content) = {}) =>
        /\ out[1].content = node.content
        /\ BaseTextRender(out[1], scope).content = out[1].content

-----------------------------------------------------------------------------
(* Further properties of generate(), of validation and of the contexts.      *)

\* C15: when generate() fails because no no-warranty clause is found, no
\* section has been rendered at that moment.
C15_AnchorFailureBeforeRendering ==
    (pc = "failed" /\ result = Error("StopIteration")) =>
        \A name \in SectionNames : rendered[name] = None

-----------------------------------------------------------------------------
(* Single calls of TemplateService.load on a path of a bounded disk.         *)

\* The JSON text of some data, stored in a file
JsonOf(data) == [state |-> "json", data |-> data]

LoadPaths == {LegalEntityPath, NaturalPersonPath, SectionPath("parties")}

\* TemplateService.load: open raises FileNotFoundError, an empty file gives
\* the empty dict, json.loads raises JSONDecodeError or gives the data
load(file) ==
    CASE file.state = "missing" -> [ok |-> FALSE, error |-> "FileNotFoundError"]
      \* [empty |-> TRUE]: the empty dict load returns for an empty file
      [] file.state = "empty" -> [ok |-> TRUE, value |-> [empty |-> TRUE]]
      [] file.state = "invalid" -> [ok |-> FALSE, error |-> "JSONDecodeError"]
      [] file.state = "json" -> [ok |-> TRUE, value |-> file.data]

InitLoad ==
    /\ base_path = DefaultBasePath
    \* What can be stored under a path: nothing, an empty file, text that is
    \* not JSON, or the JSON text of some data
    /\ disk \in [LoadPaths -> {[state |-> "missing"], [state |-> "empty"],
                               [state |-> "invalid"],
                               JsonOf(Load(LegalEntityPath)),
                               JsonOf(Load(SectionPath("parties")))}]
    /\ load_path \in LoadPaths
    /\ out = None
    /\ pc = "call"
    /\ result = NoResult
    /\ request = <<>>
    /\ context = None
    /\ party_context = None
    /\ baseline = None
    /\ raw = <<>>
    /\ rendered = <<>>
    /\ reads = {}
    /\ node = None
    /\ scope = <<>>

CallLoad ==
    /\ pc = "call"
    /\ LET r == load(disk[load_path])
       IN IF r.ok
          THEN /\ out' = Some(r.value)
               /\ pc' = "returned"
               /\ result' = result
          ELSE /\ out' = out
               /\ pc' = "raised"
               /\ result' = Error(r.error)
    /\ reads' = reads \cup {load_path}
    /\ UNCHANGED <<request, context, party_context, baseline, raw, rendered,
                   node, scope, disk, load_path, base_path>>

SpecLoad == InitLoad /\ [][CallLoad]_vars

\* C16: TemplateService.load returns the parsed data of the file stored under
\* the path or fails: for a missing file, an empty file and a file that is
\* not JSON it raises and returns nothing.
C16_LoadReturnsDataOrFails ==
    pc \in {"returned", "raised"} =>
        IF disk[load_path].state = "json"
        THEN pc = "returned" /\ out = Some(disk[load_path].data)
        ELSE pc = "raised" /\ out = None /\ result.kind = "error"

-----------------------------------------------------------------------------
(* Properties of validation and of the context builders.                     *)

\* The rule a request has to meet: a party, a role for every party and, for
\* a unilateral variant, exactly one disclosing party
MeetsRoleRule ==
    /\ Len(request.parties) >= 1
    /\ \A i \in 1..Len(request.parties) : request.parties[i].v.information_role # None
    /\ request.contract_variant \in {UNILATERAL_STANDARD, UNILATERAL_MULTI} =>
          Cardinality({i \in 1..Len(request.parties) :
                          request.parties[i].v.information_role = Some(DISCLOSING)}) = 1

\* C17: a request that has no party, or a party without information role, or
\* a unilateral variant without exactly one DISCLOSING party, is rejected with
\* a validation error when it is constructed: no context is built, no file
\* read and no section assembled for it.
C17_InvalidRequestRejected ==
    (pc # "request" /\ ~MeetsRoleRule) =>
        /\ pc = "failed"
        /\ result = Error("ValidationError")
        /\ context = None
        /\ party_context = None
        /\ reads = {}
        /\ \A name \in SectionNames : raw[name] = None /\ rendered[name] = None

\* A unilateral request of two parties, both disclosing, was rejected
C17_Witness ==
    /\ pc = "failed"
    /\ result = Error("ValidationError")
    /\ Len(request.parties) = 2
    /\ request.contract_variant = UNILATERAL_STANDARD
    /\ \A i \in 1..2 : request.parties[i].v.information_role = Some(DISCLOSING)

-----------------------------------------------------------------------------
(* Single calls of the context builders on a request object, valid or not    *)
(* (a request built without validation, or changed after it).                *)

InitContext ==
    /\ ReceiveRequest
    /\ pc = "call"
    /\ context = None
    /\ party_context = None
    /\ baseline = None
    /\ raw = <<>>
    /\ rendered = <<>>
    /\ result = NoResult
    /\ reads = {}
    /\ node = None
    /\ scope = <<>>
    /\ out = None
    /\ disk = <<>>
    /\ load_path = <<>>
    /\ base_path = DefaultBasePath

CallConstructContext ==
    /\ pc = "call"
    /\ context' = Some(construct_context(request))
    /\ pc' = "context"
    /\ UNCHANGED <<request, party_context, baseline, raw, rendered, result, reads,
                   node, scope, out, disk, load_path, base_path>>

CallConstructPartyContext ==
    /\ pc = "call"
    /\ LET built == construct_party_context(request)
       IN IF built.ok
          THEN /\ party_context' = Some(built.value)
               /\ pc' = "party_context"
               /\ result' = result
          ELSE /\ party_context' = party_context
               /\ pc' = "raised"
               /\ result' = Error(built.error)
    /\ UNCHANGED <<request, context, baseline, raw, rendered, reads,
                   node, scope, out, disk, load_path, base_path>>

SpecContext ==
    InitContext /\ [][CallConstructContext \/ CallConstructPartyContext]_vars

\* The information-role rule: a role for every party and, for a unilateral
\* variant, exactly one disclosing party
MeetsInformationRoleRule ==
    /\ \A i \in 1..Len(request.parties) : request.parties[i].v.information_role # None
    /\ request.contract_variant \in {UNILATERAL_STANDARD, UNILATERAL_MULTI} =>
          Cardinality({i \in 1..Len(request.parties) :
                          request.parties[i].v.information_role = Some(DISCLOSING)}) = 1

\* C18: construct_party_context, handed a request that breaks the
\* information-role rule, raises an error and returns no party context.
C18_PartyContextRechecksRoles ==
    (pc \in {"party_context", "raised"} /\ ~MeetsInformationRoleRule) =>
        /\ pc = "raised"
        /\ result.kind = "error"
        /\ party_context = None

\* C19: the context construct_context returns has the keys duration_amount
\* and duration_unit exactly when the request has a limited term, and the keys
\* initial_amount and subsequent_amount exactly when it has a penalty clause;
\* no key is mapped to null.
C19_OptionalKeysIffRequested ==
    pc = "context" =>
        /\ \A key \in {"duration_amount", "duration_unit"} :
              HasKey(context[1], key) <=> request.limited_term # None
        /\ \A key \in {"initial_amount", "subsequent_amount"} :
              HasKey(context[1], key) <=> request.penalty_clause # None
        /\ \A i \in 1..Len(context[1]) : context[1][i].v.t \in {"str", "int"}

C19_Witness ==
    /\ pc = "context"
    /\ request.limited_term # None
    /\ request.penalty_clause = None
    /\ Keys(context[1]) = <<"city", "country", "purpose", "duration_amount", "duration_unit">>

C19_WitnessPenalty ==
    /\ pc = "context"
    /\ request.limited_term = None
    /\ request.penalty_clause # None
    /\ Get(context[1], "initial_amount") = IntVal(request.penalty_clause[1].initial_amount)

-----------------------------------------------------------------------------
(* Construction of a TextSection or a ClauseSection, and its rendering.      *)

\* The classmethods validate_subsections of TextSection and ClauseSection
validate_subsections(cls, value) ==
    IF cls = "TextSection"
    THEN \A i \in 1..Len(value) : value[i].cls \in {"BaseText", "Paragraph"}
    ELSE \A i \in 1..Len(value) : value[i].cls = "Clause"

\* The arguments of the constructor call; node is the object once it exists
InitSection ==
    /\ \E cls \in {"TextSection", "ClauseSection"}, n \in 0..MaxSubsections :
          \E subsections \in [1..n -> {BaseText(DearName), AParagraph,
                                       Clause(Hello, <<AParagraph>>)}] :
              node = [Section(Txt(<<"Terms">>), subsections, None) EXCEPT !.cls = cls]
    /\ scope \in FlatScopes
    /\ pc = "construct"
    /\ out = None
    /\ result = NoResult
    /\ request = <<>>
    /\ context = None
    /\ party_context = None
    /\ baseline = None
    /\ raw = <<>>
    /\ rendered = <<>>
    /\ reads = {}
    /\ disk = <<>>
    /\ load_path = <<>>
    /\ base_path = DefaultBasePath

\* The pydantic constructor checks the fields against their annotations, every
\* subsection being a BaseText, a Paragraph or a Clause. validate_subsections
\* carries no validator decorator and is not called.
ConstructSection ==
    /\ pc = "construct"
    /\ IF \A i \in 1..Len(node.subsections) :
             node.subsections[i].cls \in {"BaseText", "Paragraph", "Clause"}
       THEN pc' = "constructed" /\ result' = result
       ELSE pc' = "raised" /\ result' = Error("ValidationError")
    /\ UNCHANGED <<request, context, party_context, baseline, raw, rendered, reads,
                   node, scope, out, disk, load_path, base_path>>

\* Section.render, inherited; the result is of the class of the input
RenderConstructed ==
    /\ pc = "constructed"
    /\ Returned([SectionRender(node, scope).value EXCEPT !.cls = node.cls])
    /\ UNCHANGED <<disk, load_path, base_path>>

SpecSection == InitSection /\ [][ConstructSection \/ RenderConstructed]_vars

\* C20: no ClauseSection with a subsection that is not a Clause, and no
\* TextSection with a subsection that is not a BaseText or Paragraph, is ever
\* constructed or rendered: the construction fails.
C20_IllTypedSectionRejected ==
    pc \in {"constructed", "returned"} => validate_subsections(node.cls, node.subsections)

-----------------------------------------------------------------------------
(* Further properties of the assembled sections.                             *)

LimitedTermPath == agreements_path(request) \o <<"term", "limited">>
UnlimitedTermPath == agreements_path(request) \o <<"term", "unlimited">>

\* The clauses the assembler is to insert in front of the no-warranty clause
InsertedClauses ==
    << ClauseOf(Load(IF request.limited_term # None
                     THEN LimitedTermPath ELSE UnlimitedTermPath)),
       ClauseOf(Load(IF request.penalty_clause # None
                     THEN PenaltiesPath ELSE RemediesPath)) >>
    \o (IF MutualVariant THEN <<>>
        ELSE <<ClauseOf(Load(InformationReceivingPartyPath))>>)

\* C23: with B the baseline clause list and i the index of its only
\* no-warranty clause, the assembled clause sequence is B[0..i), then the term
\* clause, the enforcement clause and, for unilateral variants, the
\* information-receiving-party clause, then B[i..]: len(B)+2 clauses for
\* mutual and len(B)+3 for unilateral variants.
C23_AssembledClauseSequence ==
    (raw["agreements"] # None /\ UniqueAnchor) =>
        LET B == baseline[1]
            anchor == CHOOSE i \in 1..Len(B) : NoWarrantyMatches(B) = {i}
            clauses == raw["agreements"][1].subsections
        IN /\ clauses = SubSeq(B, 1, anchor - 1) \o InsertedClauses
                            \o SubSeq(B, anchor, Len(B))
           /\ Len(clauses) = Len(B) + (IF MutualVariant THEN 2 ELSE 3)

\* A mutual request with a penalty clause, the anchor in the middle of the list
C23_Witness ==
    /\ raw["agreements"] # None
    /\ UniqueAnchor
    /\ MutualVariant
    /\ request.penalty_clause # None
    /\ NoWarrantyMatches(baseline[1]) = {8}
    /\ Len(raw["agreements"][1].subsections) = 11

\* C25: every assembled agreements section holds exactly one term clause:
\* the limited one when the request has a limited term, the unlimited one
\* otherwise; only that one term fragment is read.
C25_OneTermClause ==
    LET expected == IF request.limited_term # None
                    THEN LimitedTermPath ELSE UnlimitedTermPath
    IN baseline # None =>
        /\ reads \cap {LimitedTermPath, UnlimitedTermPath} = {expected}
        /\ \A section \in {raw["agreements"], rendered["agreements"]} :
              section # None =>
                  /\ Cardinality(Positions(section[1], {LimitedTermPath, UnlimitedTermPath})) = 1
                  /\ Positions(section[1], {expected}) =
                        Positions(section[1], {LimitedTermPath, UnlimitedTermPath})

C25_Witness ==
    /\ result.kind = "Contract"
    /\ request.limited_term # None
    /\ Cardinality(Positions(result.agreements, {LimitedTermPath})) = 1
    /\ Positions(result.agreements, {UnlimitedTermPath}) = {}

\* The fragment of the kind of the k-th party of the request
PartyFragment(k) ==
    BaseTextOf(Load(IF request.parties[k].v.party_type = "legal_entity"
                    THEN LegalEntityPath ELSE NaturalPersonPath))

\* C24: the assembled parties section has one subsection per party of the
\* request, in the order of the request: the legal_entity fragment for a
\* LegalEntity and the natural_person fragment for a NaturalPerson.
C24_OneSubsectionPerParty ==
    raw["parties"] # None =>
        raw["parties"][1].subsections =
            [k \in 1..Len(request.parties) |-> PartyFragment(k)]

\* C26: a raw node is not assigned to after its creation: the parties section
\* the assembler hands on is the section as _create_section constructed it
\* from the section template and the subsections.
C26_RawNodeAsCreated ==
    raw["parties"] # None =>
        raw["parties"][1] = create_section("parties", raw["parties"][1].subsections)

\* C28: whatever the party keys are, the rendered parties section has one
\* subsection per party, the k-th one being the fragment of the k-th party's
\* kind rendered against the k-th party's own sub-context.
C28_PartiesRenderedWithOwnData ==
    rendered["parties"] # None =>
        rendered["parties"][1].subsections =
            [k \in 1..Len(request.parties) |->
                BaseTextRender(PartyFragment(k),
                               Get(party_context[1], request.parties[k].k).v)]

\* C30: in the party context of an accepted request of two parties one party
\* has the role "the Disclosing Party" and the other one "the Receiving Party".
C30_TwoPartiesTwoRoles ==
    (party_context # None /\ Len(request.parties) = 2) =>
        {RoleOf(request.parties[1].k), RoleOf(request.parties[2].k)} = RolePhrases

-----------------------------------------------------------------------------
(* Contract.to_string and Contract.render on a contract and a context drawn  *)
(* from bounded sets: pactdesk/models/domain/contract.py. The four fields of *)
(* a Contract are typed object, so a field holds a Section or a plain str.   *)

ContractSections ==
    { Section(Txt(<<"Parties">>), <<BaseText(DearName)>>, None),
      Section(Txt(<<"Agreements">>), <<Clause(Hello, <<AParagraph>>)>>, None),
      Section(Txt(<<"Considerations">>), <<AParagraph>>, None),
      Section(Txt(<<"Signatures">>), <<>>, None),
      [cls |-> "str", content |-> Hello] }

\* Contract._get_sections
get_sections(contract) ==
    <<contract.parties, contract.considerations, contract.agreements,
      contract.signatures>>

\* Contract.to_string: a section with a to_string method contributes its
\* to_string(), a str contributes itself. No class of models/domain/base.py
\* defines to_string, so a Section contributes nothing.
to_string(contract) ==
    LET sections == get_sections(contract)
        strs == SelectSeq(sections, LAMBDA section : section.cls = "str")
        RECURSIVE Join(_)
        \* "\n\n".join(parts)
        Join(parts) ==
            IF parts = <<>> THEN <<>>
            ELSE IF Len(parts) = 1 THEN parts[1]
            ELSE parts[1] \o <<Newline, Newline>> \o Join(Tail(parts))
    IN Join([i \in 1..Len(strs) |-> strs[i].content])

\* Contract.get_indices: _process_section visits the Clause subsections of a
\* section that has subsections, and _process_clause starts by reading
\* clause.position. Clause declares title and paragraphs only, so the read
\* raises AttributeError; without a clause the indices stay empty.
get_indices(contract) ==
    LET sections == get_sections(contract)
    IN IF \E k \in 1..Len(sections) :
            /\ sections[k].cls = "Section"
            /\ \E i \in 1..Len(sections[k].subsections) :
                    sections[k].subsections[i].cls = "Clause"
       THEN [ok |-> FALSE, error |-> "AttributeError"]
       ELSE [ok |-> TRUE, value |-> <<>>]

\* Contract.render: nothing to do for a falsy context; otherwise no section
\* class has assign_positions, the indices are merged into the context,
\* section.render(full_context) is called on every section that has render
\* and its return value is dropped; the method returns self.
ContractRender(contract, context_) ==
    IF context_ = None \/ context_[1] = <<>>
    THEN [ok |-> TRUE, value |-> contract]
    ELSE LET indices == get_indices(contract)
         IN IF ~indices.ok THEN indices
            ELSE LET RECURSIVE Merge(_, _)
                     \* {**context, **indices}
                     Merge(a, b) ==
                         IF b = <<>> THEN a
                         ELSE Merge(Put(a, b[1].k, b[1].v), Tail(b))
                     full_context == Merge(context_[1], indices.value)
                     sections == get_sections(contract)
                     failed == {k \in 1..Len(sections) :
                                    /\ sections[k].cls = "Section"
                                    /\ ~SectionRender(sections[k], full_context).ok}
                 IN IF failed # {}
                    THEN SectionRender(sections[CHOOSE k \in failed :
                                                    \A j \in failed : k <= j],
                                       full_context)
                    ELSE [ok |-> TRUE, value |-> contract]

InitContract ==
    /\ node \in { Contract(p, c, a, s) : p \in ContractSections, c \in ContractSections,
                                         a \in ContractSections, s \in ContractSections }
    /\ scope \in {None} \cup {Some(s) : s \in FlatScopes}
    /\ out = None
    /\ pc = "call"
    /\ result = NoResult
    /\ request = <<>>
    /\ context = None
    /\ party_context = None
    /\ baseline = None
    /\ raw = <<>>
    /\ rendered = <<>>
    /\ reads = {}
    /\ disk = <<>>
    /\ load_path = <<>>
    /\ base_path = DefaultBasePath

CallToString ==
    /\ pc = "call"
    /\ out' = Some(to_string(node))
    /\ pc' = "string"
    /\ UNCHANGED <<request, context, party_context, baseline, raw, rendered,
                   result, reads, node, scope, disk, load_path, base_path>>

CallContractRender ==
    /\ pc = "call"
    /\ LET r == ContractRender(node, scope)
       IN IF r.ok
          THEN /\ out' = Some(r.value)
               /\ result' = [kind |-> "self"]
               /\ pc' = "rendered"
          ELSE /\ result' = Error(r.error)
               /\ pc' = "raised"
               /\ out' = out
    /\ UNCHANGED <<request, context, party_context, baseline, raw, rendered,
                   reads, node, scope, disk, load_path, base_path>>

SpecContract == InitContract /\ [][CallToString \/ CallContractRender]_vars

\* text occurs in s as a contiguous run
Occurs(text, s) ==
    \E i \in 1..(Len(s) - Len(text) + 1) : SubSeq(s, i, i + Len(text) - 1) = text

IsSectionObject(section) == section.cls = "Section"

AllSectionObjects ==
    \A k \in 1..4 : IsSectionObject(get_sections(node)[k])

\* C21: the output of Contract.to_string() on a contract of four Section
\* objects, as generate() returns it, contains the title of every section.
C21_TitlesInOutput ==
    (pc = "string" /\ AllSectionObjects) =>
        \A k \in 1..4 : Occurs(get_sections(node)[k].title, out[1])

\* C27: Contract.render with a non-empty context returns a contract each of
\* whose sections is the original section rendered against the context merged
\* with the clause and paragraph indices (there are none when the call
\* returns: a contract with a clause makes get_indices raise).
C27_SectionsRendered ==
    (pc = "rendered" /\ scope # None /\ scope[1] # <<>>) =>
        \A k \in 1..4 :
            IsSectionObject(get_sections(node)[k]) =>
                get_sections(out[1])[k] =
                    SectionRender(get_sections(node)[k], scope[1]).value

-----------------------------------------------------------------------------
(* NondisclosureService(request, base_path).generate() with the base path    *)
(* given by the caller: the default one or another directory.                *)

\* A request of two legal entities or natural persons, party_1 disclosing
InitService ==
    /\ base_path \in {DefaultBasePath, <<"srv", "fragments">>}
    /\ \E variant \in NdaContractVariant, kinds \in [1..2 -> PartyKinds],
          penalty \in {None, Some(Penalty)}, term \in {None, Some(Term)} :
            request = NondisclosureRequest(<<"party_1", "party_2">>, kinds,
                                           <<Some(DISCLOSING), Some(RECEIVING)>>,
                                           variant, penalty, term)
    /\ pc = "request"
    /\ context = None
    /\ party_context = None
    /\ baseline = None
    /\ raw = [s \in SectionNames |-> None]
    /\ rendered = [s \in SectionNames |-> None]
    /\ result = NoResult
    /\ reads = {}
    /\ node = None
    /\ scope = <<>>
    /\ out = None
    /\ disk = <<>>
    /\ load_path = <<>>

SpecService == InitService /\ [][Next /\ UNCHANGED <<disk, load_path, base_path>>]_vars

IsUnder(path, dir) == Len(path) >= Len(dir) /\ SubSeq(path, 1, Len(dir)) = dir

\* C29: every fragment read while the service is built and generate() runs is
\* read from a path under the base path the service was given.
C29_ReadsUnderBasePath ==
    \A fragment \in reads : IsUnder(fragment, base_path)

-----------------------------------------------------------------------------
(* Two invocations NondisclosureService(request).generate() against one      *)
(* fragment snapshot, their steps interleaved in any order. Every variable   *)
(* of the single invocation is kept per invocation; out[i] holds the         *)
(* identities of the objects invocation i has created, node the invocation   *)
(* that took the last step and scope the number of switches between the two  *)
(* (counted up to MaxSwitches).                                              *)

Invocations == {1, 2}

\* The object a constructor call of invocation i returns: a new object on
\* every call, named here by the invocation and the place of the call
Allocated(i, what) == [by |-> i, what |-> what]

\* A faulty variant of LoadedFragment: the parsed fragment is kept in a cache
\* all template services share
LoadedFragmentCached(i, path) == [by |-> 0, what |-> <<"fragment">> \o path]

\* The mapping TemplateService.load returns: json.loads builds it on every call
LoadedFragment(i, path) == Allocated(i, <<"fragment">> \o path)

\* The unrendered section of a name, or the error its assembly ends in, and
\* the fragment files read on the way
Assembled(req, name, titles) ==
    CASE name = "parties" ->
            [ok |-> TRUE, value |-> generate_parties(req), files |-> PartiesReads(req)]
      [] name = "considerations" ->
            [ok |-> TRUE, value |-> generate_considerations(req),
             files |-> ConsiderationsReads(req)]
      [] name = "agreements" ->
            LET clauses == LoadBaseline(req, titles)
                built == generate_agreements(req, clauses)
            IN [ok |-> built.ok,
                value |-> IF built.ok THEN built.value ELSE built.error,
                files |-> AgreementsReads(req, clauses)]
      [] name = "signatures" ->
            [ok |-> TRUE, value |-> generate_signatures, files |-> SignaturesReads]

InitConcurrent ==
    /\ request \in [Invocations ->
                        { NondisclosureRequest(<<"party_1", "party_2">>,
                                               <<"legal_entity", "natural_person">>,
                                               <<Some(DISCLOSING), Some(RECEIVING)>>,
                                               variant, Some(Penalty), None) :
                            variant \in {UNILATERAL_STANDARD, MUTUAL_STANDARD} }]
    /\ disk \in TitlesOnDisk
    /\ pc = [i \in Invocations |-> "validated"]
    /\ context = [i \in Invocations |-> None]
    /\ party_context = [i \in Invocations |-> None]
    /\ baseline = [i \in Invocations |-> None]
    /\ raw = [i \in Invocations |-> [s \in SectionNames |-> None]]
    /\ rendered = [i \in Invocations |-> [s \in SectionNames |-> None]]
    /\ result = [i \in Invocations |-> NoResult]
    /\ reads = [i \in Invocations |-> {}]
    /\ out = [i \in Invocations |-> {}]
    /\ node = 0
    /\ scope = 0
    /\ load_path = <<>>
    /\ base_path = DefaultBasePath

\* Invocation i takes the next step
Scheduled(i) ==
    /\ node' = i
    /\ scope' = IF node \notin {0, i} /\ scope < MaxSwitches THEN scope + 1 ELSE scope

\* NondisclosureService(request): the two contexts are built
NewServiceOf(i) ==
    /\ pc[i] = "validated"
    /\ LET built == construct_party_context(request[i])
       IN IF built.ok
          THEN /\ context' = [context EXCEPT ![i] = Some(construct_context(request[i]))]
               /\ party_context' = [party_context EXCEPT ![i] = Some(built.value)]
               /\ pc' = [pc EXCEPT ![i] = "constructed"]
               /\ out' = [out EXCEPT ![i] = @ \cup {Allocated(i, <<"context">>),
                                                    Allocated(i, <<"party_context">>)}]
               /\ result' = result
          ELSE /\ pc' = [pc EXCEPT ![i] = "failed"]
               /\ result' = [result EXCEPT ![i] = Error(built.error)]
               /\ UNCHANGED <<context, party_context, out>>
    /\ Scheduled(i)
    /\ UNCHANGED <<request, baseline, raw, rendered, reads, disk, load_path, base_path>>

\* self._generate_<section>(): the fragments are loaded and the section built
AssembleOf(i) ==
    LET section_after == [constructed |-> "parties",
                          parties_rendered |-> "considerations",
                          considerations_rendered |-> "agreements",
                          agreements_rendered |-> "signatures"]
    IN /\ pc[i] \in DOMAIN section_after
       /\ LET name == section_after[pc[i]]
              built == Assembled(request[i], name, disk)
          IN /\ reads' = [reads EXCEPT ![i] = @ \cup built.files]
             /\ out' = [out EXCEPT ![i] =
                            @ \cup {LoadedFragment(i, file) : file \in built.files}
                              \cup (IF built.ok THEN {Allocated(i, <<"raw", name>>)} ELSE {})]
             /\ IF built.ok
                THEN /\ raw' = [raw EXCEPT ![i][name] = Some(built.value)]
                     /\ pc' = [pc EXCEPT ![i] = name]
                     /\ result' = result
                ELSE /\ raw' = raw
                     /\ pc' = [pc EXCEPT ![i] = "failed"]
                     /\ result' = [result EXCEPT ![i] = Error(built.value)]
       /\ Scheduled(i)
       /\ UNCHANGED <<request, context, party_context, baseline, rendered, disk,
                      load_path, base_path>>

\* .render(self.party_context) / .render(self.context) on the section just built
RenderOf(i) ==
    LET step_after == [parties |-> "parties_rendered",
                       considerations |-> "considerations_rendered",
                       agreements |-> "agreements_rendered",
                       signatures |-> "signatures_rendered"]
    IN /\ pc[i] \in SectionNames
       /\ LET name == pc[i]
              r == SectionRender(raw[i][name][1],
                                 IF name = "parties" THEN party_context[i][1]
                                 ELSE context[i][1])
          IN IF r.ok
             THEN /\ rendered' = [rendered EXCEPT ![i][name] = Some(r.value)]
                  /\ out' = [out EXCEPT ![i] = @ \cup {Allocated(i, <<"rendered", name>>)}]
                  /\ pc' = [pc EXCEPT ![i] = step_after[name]]
                  /\ result' = result
             ELSE /\ pc' = [pc EXCEPT ![i] = "failed"]
                  /\ result' = [result EXCEPT ![i] = Error(r.error)]
                  /\ UNCHANGED <<rendered, out>>
       /\ Scheduled(i)
       /\ UNCHANGED <<request, context, party_context, baseline, raw, reads, disk,
                      load_path, base_path>>

\* return Contract(...)
ReturnOf(i) ==
    /\ pc[i] = "signatures_rendered"
    /\ result' = [result EXCEPT ![i] =
                    Contract(rendered[i]["parties"][1], rendered[i]["considerations"][1],
                             rendered[i]["agreements"][1], rendered[i]["signatures"][1])]
    /\ out' = [out EXCEPT ![i] = @ \cup {Allocated(i, <<"contract">>)}]
    /\ pc' = [pc EXCEPT ![i] = "done"]
    /\ Scheduled(i)
    /\ UNCHANGED <<request, context, party_context, baseline, raw, rendered, reads,
                   disk, load_path, base_path>>

SpecConcurrent ==
    InitConcurrent /\ [][\E i \in Invocations : \/ NewServiceOf(i)
                                                \/ AssembleOf(i)
                                                \/ RenderOf(i)
                                                \/ ReturnOf(i)]_vars

\* What generate() gives for a request when it runs alone: the contract, or
\* the first error in the order parties, considerations, agreements, signatures
RunAlone(req, titles) ==
    LET built == construct_party_context(req)
    IN IF ~built.ok THEN Error(built.error)
       ELSE LET names == <<"parties", "considerations", "agreements", "signatures">>
                section(k) ==
                    LET a == Assembled(req, names[k], titles)
                    IN IF ~a.ok THEN [ok |-> FALSE, error |-> a.value]
                       ELSE SectionRender(a.value, IF k = 1 THEN built.value
                                                   ELSE construct_context(req))
                failed == {k \in 1..4 : ~section(k).ok}
            IN IF failed # {}
               THEN Error(section(CHOOSE k \in failed : \A j \in failed : k <= j).error)
               ELSE Contract(section(1).value, section(2).value, section(3).value,
                             section(4).value)

====
